---- MODULE Spec2Model ----
(***************************************************************************)
(* Model of the autocomplete trie of src/src/trie.py (class Trie).         *)
(*                                                                         *)
(* A TrieNode is identified by the sequence of characters that leads to it *)
(* from the root (ownership is a strict tree, so the path is the node's    *)
(* identity).  self.root is the store of the nodes reachable from the      *)
(* root: a function from node to [children, is_word, freq].  children is   *)
(* the node's dict, kept as the sequence of its keys in insertion order    *)
(* (a Python dict iterates in insertion order); the child under key c of   *)
(* node n is the node Append(n, c).  A node detached by `del` is garbage   *)
(* and leaves the store together with its subtree.                         *)
(*                                                                         *)
(* Scores are Python numbers; the model draws them from 0..MaxFreq (NaN is *)
(* not modelled).                                                          *)
(*                                                                         *)
(* The command loop of src/src/app.py and the CSV helpers of               *)
(* src/src/io_utils.py are modelled over tokens: a token is a sequence of  *)
(* symbols, a word is the token of its characters, and a command name is   *)
(* written as one symbol.  A CSV file is the sequence of its lines.        *)
(***************************************************************************)
EXTENDS Naturals, Integers, Sequences, FiniteSets, TLC

\* root, _words, _nodes: the fields of the Trie object.  call, ret: the method
\* called last with its arguments, and what it returned.  before: the Trie
\* object as it was when that call was made.  files: the CSV files on disk,
\* a function from the paths that exist to their lines (src/src/io_utils.py).
VARIABLES root, _words, _nodes, call, ret, before, files

vars == <<root, _words, _nodes, call, ret, before, files>>

\* ------------------------------------------------------------------ bounds
\* Largest score an insert is called with (scores are 0..MaxFreq).
MaxFreq == 1
\* Largest k complete is called with (k is 0..MaxK).
MaxK == 3
\* Caps on the two counters: an insert that would take self._words above
\* MaxWords or self._nodes above MaxNodes is not made.
MaxWords == 3
MaxNodes == 5
\* Cap on self._words in the machine of inserts and removes of non-empty
\* words (SpecNonEmpty).
MaxWordsNonEmpty == 4

\* The alphabet, and the words every operation draws its argument from: a
\* prefix-closed family with the chain a/aa/aab, the siblings aa and ab under
\* "a", and the empty word.
Alphabet == {"a", "b"}
Words == { <<>>, <<"a">>, <<"a", "a">>, <<"a", "b">>, <<"a", "a", "b">> }
Freqs == 0..MaxFreq
Ks == 0..MaxK

\* ------------------------------------------------ characters and strings
\* ord(c): the code point order Python compares characters by.
ord(c) == CASE c = "a" -> 1 [] c = "b" -> 2

\* u < v on Python strings (lexicographic, a proper prefix is smaller).
RECURSIVE StrLess(_, _)
StrLess(u, v) ==
  IF v = <<>> THEN FALSE
  ELSE IF u = <<>> THEN TRUE
  ELSE IF Head(u) = Head(v) THEN StrLess(Tail(u), Tail(v))
  ELSE ord(Head(u)) < ord(Head(v))

\* word.startswith(prefix)
StartsWith(word, prefix) ==
  /\ Len(prefix) <= Len(word)
  /\ SubSeq(word, 1, Len(prefix)) = prefix

\* ------------------------------------------------------------ dict helpers
\* `c in node.children`
HasKey(children, c) == \E i \in 1..Len(children) : children[i] = c

\* the keys left by `del node.children[c]`
DelKey(children, c) == SelectSeq(children, LAMBDA x : x # c)

\* The store without the subtree of node n (garbage after a `del`).
Detach(t, n) == [m \in {x \in DOMAIN t : ~StartsWith(x, n)} |-> t[m]]

\* ---------------------------------------------------------------- TrieNode
NewNode == [children |-> <<>>, is_word |-> FALSE, freq |-> 0]

\* Trie.__init__
NewTrie == [root |-> (<<>> :> NewNode), _words |-> 0, _nodes |-> 1]

\* The Trie object as a record of its three fields.
Self == [root |-> root, _words |-> _words, _nodes |-> _nodes]

\* -------------------------------------------------------------- _find_node
\* The loop of _find_node: cur is the current node, path_nodes the list of
\* <<node, char>> pairs so far, rest the characters still to follow.
RECURSIVE FindWalk(_, _, _, _)
FindWalk(t, cur, path_nodes, rest) ==
  IF rest = <<>>
  THEN [found |-> TRUE, node |-> cur, path_nodes |-> path_nodes]
  ELSE IF ~HasKey(t[cur].children, Head(rest))
  THEN [found |-> FALSE, node |-> <<>>, path_nodes |-> <<>>]
  ELSE LET nxt == Append(cur, Head(rest))
       IN FindWalk(t, nxt, Append(path_nodes, <<nxt, Head(rest)>>), Tail(rest))

\* (node, path_nodes), or found = FALSE for (None, []).  The root's pair
\* carries the empty string '' as its character.
_find_node(t, word) == FindWalk(t, <<>>, << <<(<<>>), "">> >>, word)

\* ------------------------------------------------------------------ insert
\* The loop of insert: creates the missing nodes along word.
RECURSIVE InsertWalk(_, _, _)
InsertWalk(s, cur, rest) ==
  IF rest = <<>> THEN [self |-> s, cur |-> cur]
  ELSE LET char == Head(rest)
           nxt == Append(cur, char)
           s1 == IF ~HasKey(s.root[cur].children, char)
                 THEN [s EXCEPT
                         !.root = (nxt :> NewNode) @@
                                  [s.root EXCEPT ![cur].children = Append(@, char)],
                         !._nodes = @ + 1]
                 ELSE s
       IN InsertWalk(s1, nxt, Tail(rest))

\* insert counting the word on every call, stored already or not.
insert_AlwaysCounts(s, word, freq) ==
  LET w == InsertWalk(s, <<>>, word)
      cur == w.cur
  IN [w.self EXCEPT !._words = @ + 1,
                    !.root[cur].is_word = TRUE,
                    !.root[cur].freq = freq]

insert(s, word, freq) ==
  LET w == InsertWalk(s, <<>>, word)
      cur == w.cur
      s1 == IF ~w.self.root[cur].is_word
            THEN [w.self EXCEPT !._words = @ + 1, !.root[cur].is_word = TRUE]
            ELSE w.self
  IN [s1 EXCEPT !.root[cur].freq = freq]

\* ------------------------------------------------------------------ remove
\* The pruning loop of remove, `for i in range(len(path_nodes) - 1, 0, -1)`;
\* i is the Python index, so path_nodes[i-1] is the model's path_nodes[i].
\* As in the code, char is the character stored with the parent's pair.
RECURSIVE Prune(_, _, _)
Prune(s, path_nodes, i) ==
  IF i < 1 THEN s
  ELSE LET parent_node == path_nodes[i][1]
           char == path_nodes[i][2]
           current_node == path_nodes[i + 1][1]
       IN IF s.root[current_node].children = <<>> /\ ~s.root[current_node].is_word
          THEN IF HasKey(s.root[parent_node].children, char)
               THEN Prune([s EXCEPT
                             !.root = Detach([s.root EXCEPT ![parent_node].children =
                                                DelKey(@, char)],
                                             Append(parent_node, char)),
                             !._nodes = @ - 1],
                          path_nodes, i - 1)
               ELSE Prune(s, path_nodes, i - 1)
          ELSE s

\* remove testing only that the path exists, not that it ends a word.
remove_SkipsTerminalCheck(s, word) ==
  LET f == _find_node(s.root, word)
  IN IF ~f.found
     THEN [self |-> s, ret |-> FALSE]
     ELSE LET s1 == [s EXCEPT !.root[f.node].is_word = FALSE,
                              !.root[f.node].freq = 0,
                              !._words = @ - 1]
          IN [self |-> Prune(s1, f.path_nodes, Len(f.path_nodes) - 1),
              ret |-> TRUE]

\* remove decrementing the word counter before it knows the word is stored.
remove_DecrementsFirst(s, word) ==
  LET f == _find_node(s.root, word)
      s0 == [s EXCEPT !._words = IF @ > 0 THEN @ - 1 ELSE 0]
  IN IF ~f.found \/ ~s.root[f.node].is_word
     THEN [self |-> s0, ret |-> FALSE]
     ELSE LET s1 == [s0 EXCEPT !.root[f.node].is_word = FALSE,
                               !.root[f.node].freq = 0]
          IN [self |-> Prune(s1, f.path_nodes, Len(f.path_nodes) - 1),
              ret |-> TRUE]

\* [self |-> the trie after the call, ret |-> the returned boolean]
remove(s, word) ==
  LET f == _find_node(s.root, word)
  IN IF ~f.found \/ ~s.root[f.node].is_word
     THEN [self |-> s, ret |-> FALSE]
     ELSE LET s1 == [s EXCEPT !.root[f.node].is_word = FALSE,
                              !.root[f.node].freq = 0,
                              !._words = @ - 1]
          IN [self |-> Prune(s1, f.path_nodes, Len(f.path_nodes) - 1),
              ret |-> TRUE]

\* ---------------------------------------------------------------- contains
contains(s, word) ==
  LET f == _find_node(s.root, word)
  IN f.found /\ s.root[f.node].is_word

\* ---------------------------------------------------------------- complete
\* Heap items are the tuples (freq, word); a < b is Python's tuple order.
ItemLess(a, b) == a[1] < b[1] \/ (a[1] = b[1] /\ StrLess(a[2], b[2]))

\* heapq keeps a min-heap in a list.  The words met in one traversal are
\* distinct, and the final sorted() is a total order on the items, so only
\* the set of items in the heap matters: the heap is modelled as that set.
HeapMin(heap) == CHOOSE x \in heap : \A y \in heap : x = y \/ ItemLess(x, y)

heappush(heap, item) == heap \cup {item}

\* heappushpop that pushes and pops nothing.
heappushpop_NoPop(heap, item) == heap \cup {item}

\* heapq.heappushpop: `if heap and heap[0] < item:` the item replaces the
\* smallest, else the heap is left as it is.
heappushpop(heap, item) ==
  IF heap # {} /\ ItemLess(HeapMin(heap), item)
  THEN (heap \ {HeapMin(heap)}) \cup {item}
  ELSE heap

\* sorted(node.children.items()): the keys in ascending character order.
RECURSIVE SortedKeys(_)
SortedKeys(children) ==
  IF children = <<>> THEN <<>>
  ELSE LET m == CHOOSE i \in 1..Len(children) :
                  \A j \in 1..Len(children) : ord(children[i]) <= ord(children[j])
       IN <<children[m]>> \o SortedKeys(DelKey(children, children[m]))

\* _collect_all(current_node, current_word) with the heap it updates; the
\* second operator is its loop over the sorted children.
RECURSIVE _collect_all(_, _, _, _, _)
RECURSIVE CollectChildren(_, _, _, _, _, _)
_collect_all(t, k, top_k_heap, current_node, current_word) ==
  LET item == <<t[current_node].freq, current_word>>
      h1 == IF t[current_node].is_word
            THEN IF Cardinality(top_k_heap) < k
                 THEN heappush(top_k_heap, item)
                 ELSE heappushpop(top_k_heap, item)
            ELSE top_k_heap
  IN CollectChildren(t, k, h1, current_node, current_word,
                     SortedKeys(t[current_node].children))

CollectChildren(t, k, top_k_heap, current_node, current_word, chars) ==
  IF chars = <<>> THEN top_k_heap
  ELSE CollectChildren(t, k,
         _collect_all(t, k, top_k_heap, Append(current_node, Head(chars)),
                      Append(current_word, Head(chars))),
         current_node, current_word, Tail(chars))

\* the sort key without the minus sign: (x[0], x[1]).
KeyLess_AscendingFreq(a, b) == a[1] < b[1] \/ (a[1] = b[1] /\ StrLess(a[2], b[2]))

\* key=lambda x: (-x[0], x[1]): a sorts before b.
KeyLess(a, b) == a[1] > b[1] \/ (a[1] = b[1] /\ StrLess(a[2], b[2]))

\* sorted(items, key=...) of a set of distinct items.
RECURSIVE SortedByKey(_)
SortedByKey(items) ==
  IF items = {} THEN <<>>
  ELSE LET m == CHOOSE x \in items : \A y \in items : x = y \/ KeyLess(x, y)
       IN <<m>> \o SortedByKey(items \ {m})

\* items' helper _collect, defined with items below.
RECURSIVE _collect(_, _, _, _)

\* complete returning the first k words under the prefix as the nodes' dicts
\* list them, without the heap and the final sort.
complete_FirstFound(s, prefix, k) ==
  LET f == _find_node(s.root, prefix)
      found == _collect(s.root, <<>>, <<>>, <<>>)
      under == SelectSeq(found, LAMBDA x : StartsWith(x[1], prefix))
  IN IF ~f.found THEN <<>>
     ELSE [i \in 1..(IF k < Len(under) THEN k ELSE Len(under)) |-> under[i][1]]

complete(s, prefix, k) ==
  LET f == _find_node(s.root, prefix)
  IN IF ~f.found THEN <<>>
     ELSE LET top_k_heap == _collect_all(s.root, k, {}, f.node, prefix)
              sorted_results == SortedByKey(top_k_heap)
          IN [i \in 1..Len(sorted_results) |-> sorted_results[i][2]]

\* ------------------------------------------------------------------- stats
RECURSIVE _get_height(_, _)
RECURSIVE MaxChildHeight(_, _, _, _)
\* _get_height returning the children's maximum without the `1 +`.
_get_height_NoPlusOne(t, node) ==
  IF t[node].children = <<>> THEN 0
  ELSE MaxChildHeight(t, node, t[node].children, 0)

_get_height(t, node) ==
  IF t[node].children = <<>> THEN 0
  ELSE 1 + MaxChildHeight(t, node, t[node].children, 0)

\* The loop over node.children.values() with its running maximum.
MaxChildHeight(t, node, chars, max_child_height) ==
  IF chars = <<>> THEN max_child_height
  ELSE LET h == _get_height(t, Append(node, Head(chars)))
       IN MaxChildHeight(t, node, Tail(chars),
                         IF h > max_child_height THEN h ELSE max_child_height)

stats(s) == <<s._words, _get_height(s.root, <<>>), s._nodes>>

\* ------------------------------------------------------------------- items
\* _collect(node, current_word) with the list it appends to; children are
\* visited in dict (insertion) order.
RECURSIVE CollectItems(_, _, _, _, _)
_collect(t, all_items, node, current_word) ==
  LET a1 == IF t[node].is_word
            THEN Append(all_items, <<current_word, t[node].freq>>)
            ELSE all_items
  IN CollectItems(t, a1, node, current_word, t[node].children)

CollectItems(t, all_items, node, current_word, chars) ==
  IF chars = <<>> THEN all_items
  ELSE CollectItems(t,
         _collect(t, all_items, Append(node, Head(chars)),
                  Append(current_word, Head(chars))),
         node, current_word, Tail(chars))

items(s) == _collect(s.root, <<>>, <<>>, <<>>)

\* ----------------------------------------------- the read-only methods
\* contains, complete, stats and items as calls: the Trie object each leaves
\* and what it returns.  None of them assigns a field of self or of a node.

\* contains walking with the loop of insert, which creates the missing nodes.
contains_call_CreatesPath(s, word) ==
  [self |-> InsertWalk(s, <<>>, word).self, ret |-> contains(s, word)]

contains_call(s, word) == [self |-> s, ret |-> contains(s, word)]

complete_call(s, prefix, k) == [self |-> s, ret |-> complete(s, prefix, k)]

stats_call(s) == [self |-> s, ret |-> stats(s)]

items_call(s) == [self |-> s, ret |-> items(s)]

\* --------------------------------------------------- tokens (str methods)
\* str.lower() of one symbol.
lower_sym(c) ==
  CASE c = "A" -> "a" [] c = "B" -> "b" [] c = "STATS" -> "stats" [] OTHER -> c

\* str.lower(): every symbol lowered.
lower(tok) == [i \in 1..Len(tok) |-> lower_sym(tok[i])]

\* str.strip(): the blanks at both ends dropped.
RECURSIVE lstrip(_)
lstrip(tok) ==
  IF tok # <<>> /\ Head(tok) = " " THEN lstrip(Tail(tok)) ELSE tok

RECURSIVE rstrip(_)
rstrip(tok) ==
  IF tok # <<>> /\ tok[Len(tok)] = " "
  THEN rstrip(SubSeq(tok, 1, Len(tok) - 1)) ELSE tok

strip(tok) == rstrip(lstrip(tok))

Digits == <<"0", "1", "2", "3", "4", "5", "6", "7", "8", "9">>
IsDigit(c) == \E i \in 1..Len(Digits) : Digits[i] = c
DigitValue(c) == (CHOOSE i \in 1..Len(Digits) : Digits[i] = c) - 1

\* float(x) accepting an integer literal only, as int(x) does.
float_IntegerOnly(tok) ==
  IF Len(tok) = 1 /\ IsDigit(tok[1])
  THEN [ok |-> TRUE, value |-> DigitValue(tok[1])]
  ELSE [ok |-> FALSE, value |-> 0]

\* float(x) of the tokens d and d.0 ; any other token raises ValueError
\* (ok is FALSE).
float(tok) ==
  IF Len(tok) = 1 /\ IsDigit(tok[1])
  THEN [ok |-> TRUE, value |-> DigitValue(tok[1])]
  ELSE IF Len(tok) = 3 /\ IsDigit(tok[1]) /\ tok[2] = "." /\ tok[3] = "0"
       THEN [ok |-> TRUE, value |-> DigitValue(tok[1])]
       ELSE [ok |-> FALSE, value |-> 0]

\* int(x) of the token d; any other token raises ValueError (ok is FALSE).
int(tok) ==
  IF Len(tok) = 1 /\ IsDigit(tok[1])
  THEN [ok |-> TRUE, value |-> DigitValue(tok[1])]
  ELSE [ok |-> FALSE, value |-> 0]

\* str(s) of a float score: its digit and ".0"; str(n) of a counter.
str(s) == <<Digits[s + 1], ".", "0">>
str_int(n) == <<Digits[n + 1]>>

\* ------------------------------------------------------------- io_utils.py
\* csv.writer.writerow: the fields joined by commas (no field of the model
\* needs quoting).
RECURSIVE writerow(_)
writerow(row) ==
  IF row = <<>> THEN <<>>
  ELSE IF Len(row) = 1 THEN row[1]
  ELSE row[1] \o <<",">> \o writerow(Tail(row))

\* csv.reader on one line: [] for a blank line, else the fields between the
\* commas.
RECURSIVE SplitFields(_, _)
SplitFields(line, field) ==
  IF line = <<>> THEN <<field>>
  ELSE IF Head(line) = ","
       THEN <<field>> \o SplitFields(Tail(line), <<>>)
       ELSE SplitFields(Tail(line), Append(field, Head(line)))

reader(line) == IF line = <<>> THEN <<>> ELSE SplitFields(line, <<>>)

\* The loop of load_csv over the rows of an open file.
RECURSIVE LoadRows(_)
LoadRows(lines) ==
  IF lines = <<>> THEN <<>>
  ELSE LET row == reader(Head(lines))
       IN IF row = <<>> THEN LoadRows(Tail(lines))
          ELSE LET w == lower(strip(row[1]))
                   s == IF Len(row) > 1
                        THEN IF float(row[2]).ok THEN float(row[2]).value ELSE 0
                        ELSE 0
               IN <<<<w, s>>>> \o LoadRows(Tail(lines))

\* load_csv(path) on the disk fs: the pairs it returns and the lines it
\* prints on standard output.
load_csv(fs, path) ==
  IF path \notin DOMAIN fs
  THEN [words |-> <<>>, printed |-> <<<<"ERROR: File not found at ">> \o path>>]
  ELSE [words |-> LoadRows(fs[path]), printed |-> <<>>]

\* save_csv(path, items): the disk after the file is (re)written.
save_csv(fs, path, its) ==
  [p \in DOMAIN fs \cup {path} |->
     IF p = path
     THEN [i \in 1..Len(its) |-> writerow(<<its[i][1], str(its[i][2])>>)]
     ELSE fs[p]]

\* The disk at start: no file but g, whose three lines are " A,x", a blank
\* line and "b".
InitFiles == <<"g">> :> << <<" ", "A", ",", "x">>, <<>>, <<"b">> >>

\* ------------------------------------------------------------ the machine
None == "None"

\* Each action makes one call and binds what the call leaves and returns
\* once, as the only element of a singleton.
\* The call just made: its name and arguments (unused arguments are <<>>, 0).
Call(name, word, freq, k) == [name |-> name, word |-> word, freq |-> freq, k |-> k]

Init ==
  /\ root = NewTrie.root
  /\ _words = NewTrie._words
  /\ _nodes = NewTrie._nodes
  /\ call = Call("init", <<>>, 0, 0)
  /\ ret = None
  /\ before = NewTrie
  /\ files = InitFiles

Insert ==
  \E w \in Words, f \in Freqs :
    \E s \in {insert(Self, w, f)} :
       /\ s._words <= MaxWords
       /\ s._nodes <= MaxNodes
       /\ root' = s.root
       /\ _words' = s._words
       /\ _nodes' = s._nodes
       /\ call' = Call("insert", w, f, 0)
       /\ ret' = None
       /\ before' = Self
       /\ UNCHANGED files

Remove ==
  \E w \in Words :
    \E r \in {remove(Self, w)} :
       /\ root' = r.self.root
       /\ _words' = r.self._words
       /\ _nodes' = r.self._nodes
       /\ call' = Call("remove", w, 0, 0)
       /\ ret' = r.ret
       /\ before' = Self
       /\ UNCHANGED files

Contains ==
  \E w \in Words :
    \E r \in {contains_call(Self, w)} :
       /\ root' = r.self.root
       /\ _words' = r.self._words
       /\ _nodes' = r.self._nodes
       /\ call' = Call("contains", w, 0, 0)
       /\ ret' = r.ret
       /\ before' = Self
       /\ UNCHANGED files

Complete ==
  \E p \in Words, k \in Ks :
    \E r \in {complete_call(Self, p, k)} :
       /\ root' = r.self.root
       /\ _words' = r.self._words
       /\ _nodes' = r.self._nodes
       /\ call' = Call("complete", p, 0, k)
       /\ ret' = r.ret
       /\ before' = Self
       /\ UNCHANGED files

Stats ==
  \E r \in {stats_call(Self)} :
     /\ root' = r.self.root
     /\ _words' = r.self._words
     /\ _nodes' = r.self._nodes
     /\ call' = Call("stats", <<>>, 0, 0)
     /\ ret' = r.ret
     /\ before' = Self
     /\ UNCHANGED files

Items ==
  \E r \in {items_call(Self)} :
     /\ root' = r.self.root
     /\ _words' = r.self._words
     /\ _nodes' = r.self._nodes
     /\ call' = Call("items", <<>>, 0, 0)
     /\ ret' = r.ret
     /\ before' = Self
     /\ UNCHANGED files

Next == Insert \/ Remove \/ Contains \/ Complete \/ Stats \/ Items

Spec == Init /\ [][Next]_vars

\* The machine of the claims about inserts and removes of non-empty words:
\* insert and remove are called with non-empty words only, and stats reads.
NonEmptyWords == Words \ {<<>>}

InsertNonEmpty ==
  \E w \in NonEmptyWords, f \in Freqs :
    \E s \in {insert(Self, w, f)} :
       /\ s._words <= MaxWordsNonEmpty
       /\ s._nodes <= MaxNodes
       /\ root' = s.root
       /\ _words' = s._words
       /\ _nodes' = s._nodes
       /\ call' = Call("insert", w, f, 0)
       /\ ret' = None
       /\ before' = Self
       /\ UNCHANGED files

RemoveNonEmpty ==
  \E w \in NonEmptyWords :
    \E r \in {remove(Self, w)} :
       /\ root' = r.self.root
       /\ _words' = r.self._words
       /\ _nodes' = r.self._nodes
       /\ call' = Call("remove", w, 0, 0)
       /\ ret' = r.ret
       /\ before' = Self
       /\ UNCHANGED files

NextNonEmpty == InsertNonEmpty \/ RemoveNonEmpty \/ Stats

SpecNonEmpty == Init /\ [][NextNonEmpty]_vars

\* ------------------------------------------------------------------ app.py
\* `for w, s in pairs: trie.insert(w, s)`
RECURSIVE InsertPairs(_, _)
InsertPairs(s, pairs) ==
  IF pairs = <<>> THEN s
  ELSE InsertPairs(insert(s, Head(pairs)[1], Head(pairs)[2]), Tail(pairs))

\* ','.join(results)
RECURSIVE join(_)
join(results) ==
  IF results = <<>> THEN <<>>
  ELSE IF Len(results) = 1 THEN results[1]
  ELSE results[1] \o <<",">> \o join(Tail(results))

\* main whose load inserts the pairs into the live index, without the
\* `trie = Trie()` before the loop over the pairs.
main_LoadIntoLive(s, fs, parts) ==
  LET skip == [trie |-> s, files |-> fs, printed |-> <<>>, quit |-> FALSE]
  IN IF parts = <<>> THEN skip
     ELSE LET cmd == lower(parts[1])
          IN IF cmd = <<"quit">> THEN [skip EXCEPT !.quit = TRUE]
             ELSE IF cmd = <<"load">> /\ Len(parts) = 2
             THEN LET l == load_csv(fs, parts[2])
                  IN [skip EXCEPT !.trie = InsertPairs(s, l.words),
                                  !.printed = l.printed]
             ELSE IF cmd = <<"save">> /\ Len(parts) = 2
             THEN [skip EXCEPT !.files = save_csv(fs, parts[2], items(s))]
             ELSE IF cmd = <<"insert">> /\ Len(parts) = 3
             THEN IF float(parts[3]).ok
                  THEN [skip EXCEPT !.trie = insert(s, lower(parts[2]),
                                                    float(parts[3]).value)]
                  ELSE skip
             ELSE IF cmd = <<"remove">> /\ Len(parts) = 2
             THEN LET r == remove(s, lower(parts[2]))
                  IN [skip EXCEPT !.trie = r.self,
                                  !.printed = IF r.ret THEN <<<<"OK">>>>
                                              ELSE <<<<"MISS">>>>]
             ELSE IF cmd = <<"contains">> /\ Len(parts) = 2
             THEN [skip EXCEPT !.printed = IF contains(s, lower(parts[2]))
                                           THEN <<<<"YES">>>> ELSE <<<<"NO">>>>]
             ELSE IF cmd = <<"complete">> /\ Len(parts) = 3
             THEN IF int(parts[3]).ok
                  THEN [skip EXCEPT !.printed =
                          <<join(complete(s, lower(parts[2]), int(parts[3]).value))>>]
                  ELSE skip
             ELSE IF cmd = <<"stats">>
             THEN [skip EXCEPT !.printed =
                     << <<"words=">> \o str_int(stats(s)[1])
                        \o <<" height=">> \o str_int(stats(s)[2])
                        \o <<" nodes=">> \o str_int(stats(s)[3]) >>]
             ELSE skip

\* One turn of the loop of main on the line whose split() is parts, with the
\* live index s and the disk fs: the index and the disk it leaves, the lines
\* it prints on standard output, and whether the loop ends (break).
main(s, fs, parts) ==
  LET skip == [trie |-> s, files |-> fs, printed |-> <<>>, quit |-> FALSE]
  IN IF parts = <<>> THEN skip
     ELSE LET cmd == lower(parts[1])
          IN IF cmd = <<"quit">> THEN [skip EXCEPT !.quit = TRUE]
             ELSE IF cmd = <<"load">> /\ Len(parts) = 2
             THEN LET l == load_csv(fs, parts[2])
                  IN [skip EXCEPT !.trie = InsertPairs(NewTrie, l.words),
                                  !.printed = l.printed]
             ELSE IF cmd = <<"save">> /\ Len(parts) = 2
             THEN [skip EXCEPT !.files = save_csv(fs, parts[2], items(s))]
             ELSE IF cmd = <<"insert">> /\ Len(parts) = 3
             THEN IF float(parts[3]).ok
                  THEN [skip EXCEPT !.trie = insert(s, lower(parts[2]),
                                                    float(parts[3]).value)]
                  ELSE skip
             ELSE IF cmd = <<"remove">> /\ Len(parts) = 2
             THEN LET r == remove(s, lower(parts[2]))
                  IN [skip EXCEPT !.trie = r.self,
                                  !.printed = IF r.ret THEN <<<<"OK">>>>
                                              ELSE <<<<"MISS">>>>]
             ELSE IF cmd = <<"contains">> /\ Len(parts) = 2
             THEN [skip EXCEPT !.printed = IF contains(s, lower(parts[2]))
                                           THEN <<<<"YES">>>> ELSE <<<<"NO">>>>]
             ELSE IF cmd = <<"complete">> /\ Len(parts) = 3
             THEN IF int(parts[3]).ok
                  THEN [skip EXCEPT !.printed =
                          <<join(complete(s, lower(parts[2]), int(parts[3]).value))>>]
                  ELSE skip
             ELSE IF cmd = <<"stats">>
             THEN [skip EXCEPT !.printed =
                     << <<"words=">> \o str_int(stats(s)[1])
                        \o <<" height=">> \o str_int(stats(s)[2])
                        \o <<" nodes=">> \o str_int(stats(s)[3]) >>]
             ELSE skip

\* The words, scores, counts and paths the lines are made of.
CliWords == { <<"a">>, <<"A", "b">> }
ScoreTokens == { <<"0">>, <<"1">>, <<"1", ".", "0">>, <<"x">> }
KTokens == { <<"2">>, <<"1", ".", "0">>, <<"x">> }
Paths == { <<"f">>, <<"g">> }
SavePaths == { <<"f">> }

\* The lines typed, each as the list of its tokens: the commands of the
\* module docstring with their arguments, and those with a wrong name, an
\* argument missing or added, or a number that does not parse.
Lines ==
  {<<>>, <<<<"stats">>>>, <<<<"STATS">>>>, <<<<"quit">>>>, <<<<"bogus">>>>,
   <<<<"remove">>>>, <<<<"load">>>>, <<<<"save">>>>}
  \cup {<< <<"insert">>, w, x >> : w \in CliWords, x \in ScoreTokens}
  \cup {<< <<"insert">>, w >> : w \in CliWords}
  \cup {<< <<"remove">>, w >> : w \in CliWords}
  \cup {<< <<"remove">>, w, w >> : w \in CliWords}
  \cup {<< <<"contains">>, w >> : w \in CliWords}
  \cup {<< <<"complete">>, w, x >> : w \in CliWords, x \in KTokens}
  \cup {<< <<"complete">>, w >> : w \in CliWords}
  \cup {<< <<"stats">>, w >> : w \in CliWords}
  \cup {<< <<"quit">>, w >> : w \in CliWords}
  \cup {<< <<"load">>, p >> : p \in Paths}
  \cup {<< <<"save">>, p >> : p \in SavePaths}
  \cup {<< <<"save">>, p, p >> : p \in SavePaths}

\* The line just read: its tokens and whether the loop ended on it.
LineCall(parts, quit) ==
  [name |-> "main", word |-> <<>>, freq |-> 0, k |-> 0,
   parts |-> parts, quit |-> quit]

\* The loop has ended: no line is read after a break.
Ended == call.name = "main" /\ call.quit

\* main reads the next line of standard input.
Line ==
  \E parts \in Lines :
    \E r \in {main(Self, files, parts)} :
       /\ ~Ended
       /\ root' = r.trie.root
       /\ _words' = r.trie._words
       /\ _nodes' = r.trie._nodes
       /\ files' = r.files
       /\ call' = LineCall(parts, r.quit)
       /\ ret' = r.printed
       /\ before' = Self

NextCli == Line

SpecCli == Init /\ [][NextCli]_vars

\* ------------------------------------------------- what the claims speak of
\* The nodes reachable from node n through the children dicts, n included.
RECURSIVE Subtree(_, _)
Subtree(t, n) ==
  {n} \cup UNION { Subtree(t, Append(n, t[n].children[i])) :
                     i \in 1..Len(t[n].children) }

\* The terminal nodes reachable from the root.
Terminals(t) == {n \in Subtree(t, <<>>) : t[n].is_word}

\* The words w for which contains(w) is true, and those starting with p.
StoredWords(s) == {w \in Words : contains(s, w)}
Under(s, p) == {w \in StoredWords(s) : StartsWith(w, p)}

\* The current score of a stored word: the freq of its terminal node.
ScoreOf(s, w) == s.root[w].freq

\* w ranks ahead of v: higher score, or equal score and smaller word.
RanksAhead(s, w, v) ==
  \/ ScoreOf(s, w) > ScoreOf(s, v)
  \/ ScoreOf(s, w) = ScoreOf(s, v) /\ StrLess(w, v)

\* The words of S listed from the best-ranked to the worst.
RECURSIVE Ranked(_, _)
Ranked(s, S) ==
  IF S = {} THEN <<>>
  ELSE LET best == CHOOSE w \in S : \A v \in S \ {w} : RanksAhead(s, w, v)
       IN <<best>> \o Ranked(s, S \ {best})

Min(a, b) == IF a <= b THEN a ELSE b
Range(q) == {q[i] : i \in 1..Len(q)}

\* ----------------------------------------------------------------- claims
\* Each formula speaks of the call just made: before is the trie the call
\* found, Self the trie it left, ret what it returned.

\* C1: contains(w) is true right after insert(w, s) and stays true through
\* every later operation until a remove(w) returns true.
C1_ContainsUntilRemoved ==
  /\ call.name = "insert" => contains(Self, call.word)
  /\ \A w \in Words :
       (contains(before, w) /\
        ~(call.name = "remove" /\ call.word = w /\ ret = TRUE))
       => contains(Self, w)

\* C2: complete(p, k) is the first min(k, n) elements of the stored words that
\* start with p, ranked by score descending and word ascending; no word left
\* out ranks ahead of a returned one.
C2_CompleteKeepsBest ==
  call.name = "complete" =>
    LET all == Ranked(Self, Under(Self, call.word))
    IN /\ ret = SubSeq(all, 1, Min(call.k, Len(all)))
       /\ \A w \in Under(Self, call.word) \ Range(ret) :
            \A r \in Range(ret) : ~RanksAhead(Self, w, r)

\* C3: the word count of stats() is the number of terminal nodes reachable
\* from the root, which is the number of words contains() accepts.
C3_WordCountIsTerminals ==
  /\ stats(Self)[1] = Cardinality(Terminals(root))
  /\ stats(Self)[1] = Cardinality(StoredWords(Self))

\* C4: the node count of stats() is the number of nodes reachable from the
\* root, the root included.
C4_NodeCountIsReachable == stats(Self)[3] = Cardinality(Subtree(root, <<>>))

\* C5: no dead node: every node but the root is terminal or has a child; and
\* after remove(w) returned true, every node left on w's path lies on the
\* path of a stored word.
C5_NoDeadNode ==
  /\ \A n \in Subtree(root, <<>>) \ {<<>>} :
       root[n].is_word \/ root[n].children # <<>>
  /\ (call.name = "remove" /\ ret = TRUE) =>
       \A i \in 1..Len(call.word) :
         LET q == SubSeq(call.word, 1, i)
         IN q \in Subtree(root, <<>>) =>
              \E v \in StoredWords(Self) : StartsWith(v, q)

\* C6: remove(w) returns true exactly when contains(w) was true before the
\* call; after a true return contains(w) is false and the word count of
\* stats() is one less than before.
C6_RemoveReturn ==
  call.name = "remove" =>
    /\ ret = contains(before, call.word)
    /\ ret = TRUE =>
         /\ ~contains(Self, call.word)
         /\ stats(Self)[1] = stats(before)[1] - 1

\* a stored word was removed while another word stays stored
C6_Witness ==
  /\ call.name = "remove"
  /\ ret = TRUE
  /\ contains(before, call.word)
  /\ StoredWords(Self) # {}

\* C7: remove(w) of a word that is not stored returns false and changes
\* nothing: counters, height, tree structure and stored pairs stay the same.
C7_RemoveAbsent ==
  (call.name = "remove" /\ ~contains(before, call.word)) =>
    /\ ret = FALSE
    /\ root = before.root
    /\ stats(Self) = stats(before)
    /\ items(Self) = items(before)

\* a miss on a path that exists but does not end in a terminal node
C7_Witness ==
  /\ call.name = "remove"
  /\ ~contains(before, call.word)
  /\ _find_node(before.root, call.word).found
  /\ call.word # <<>>
  /\ StoredWords(before) # {}

\* C8: insert(w, s) of a stored word overwrites its score and leaves the word
\* count, the node count and every other word's membership and score as they
\* were.
C8_ReinsertOverwrites ==
  (call.name = "insert" /\ contains(before, call.word)) =>
    /\ contains(Self, call.word)
    /\ ScoreOf(Self, call.word) = call.freq
    /\ stats(Self)[1] = stats(before)[1]
    /\ stats(Self)[3] = stats(before)[3]
    /\ \A v \in Words \ {call.word} :
         /\ contains(Self, v) = contains(before, v)
         /\ contains(before, v) => ScoreOf(Self, v) = ScoreOf(before, v)

\* a stored word was inserted again with another score, next to another
\* stored word
C8_Witness ==
  /\ call.name = "insert"
  /\ contains(before, call.word)
  /\ ScoreOf(before, call.word) # call.freq
  /\ Cardinality(StoredWords(before)) >= 2

\* C9: complete(p, k) returns exactly min(k, n) distinct words, n the number
\* of stored words starting with p, each of them stored and starting with p;
\* it is empty when no node exists for p or k = 0, and p = "" ranges over all
\* the stored words.
C9_CompleteSize ==
  call.name = "complete" =>
    /\ Len(ret) = Min(call.k, Cardinality(Under(Self, call.word)))
    /\ \A i, j \in 1..Len(ret) : i # j => ret[i] # ret[j]
    /\ \A i \in 1..Len(ret) : ret[i] \in Under(Self, call.word)
    /\ ~_find_node(root, call.word).found => ret = <<>>
    /\ call.k = 0 => ret = <<>>
    /\ (call.word = <<>> /\ call.k >= Cardinality(StoredWords(Self)))
         => Range(ret) = StoredWords(Self)

\* more words start with p than the k asked for
C9_Witness ==
  /\ call.name = "complete"
  /\ call.k > 0
  /\ Len(ret) = call.k
  /\ Cardinality(Under(Self, call.word)) > call.k

\* C10: complete's result is ordered: of two consecutive words the earlier
\* has the higher current score, or the same score and the smaller word; a
\* word's current score is the one of its most recent insert (an insert sets
\* it, and no call but an insert of that word changes it while it is stored).
C10_CompleteOrdered ==
  /\ call.name = "complete" =>
       \A i \in 1..(Len(ret) - 1) : RanksAhead(Self, ret[i], ret[i + 1])
  /\ call.name = "insert" => ScoreOf(Self, call.word) = call.freq
  /\ \A w \in Words :
       (contains(before, w) /\ contains(Self, w) /\
        ~(call.name = "insert" /\ call.word = w))
       => ScoreOf(Self, w) = ScoreOf(before, w)

\* three words returned, the first by its score, the last two by the tie-break
C10_Witness ==
  /\ call.name = "complete"
  /\ Len(ret) = 3
  /\ ScoreOf(Self, ret[1]) > ScoreOf(Self, ret[2])
  /\ ScoreOf(Self, ret[2]) = ScoreOf(Self, ret[3])

\* The length of the longest word of S, 0 for no word.
LongestLen(S) == IF S = {} THEN 0
                 ELSE CHOOSE n \in {Len(w) : w \in S} : \A w \in S : Len(w) <= n

\* C11: after inserts and removes of non-empty words, stats() reports a node
\* count that is at least the word count.
C11_NodesAtLeastWords == stats(Self)[3] >= stats(Self)[1]

\* C12: the height of stats() is the length of the longest stored word, and 0
\* when no word is stored.
C12_HeightIsLongestWord == stats(Self)[2] = LongestLen(StoredWords(Self))

\* C13: after inserts and removes of non-empty words, stats() reports a
\* height of at least 1 whenever it reports a word count of at least 1, and a
\* height of 0 only when the index holds no word.
C13_HeightPositive ==
  /\ stats(Self)[1] >= 1 => stats(Self)[2] >= 1
  /\ stats(Self)[2] = 0 => (StoredWords(Self) = {} /\ stats(Self)[1] = 0)

\* stats() after a remove, with a word still stored
C13_Witness ==
  /\ call.name = "stats"
  /\ ret[1] >= 1
  /\ ret[2] >= 1
  /\ StoredWords(Self) # {}
  /\ Cardinality(StoredWords(Self)) < Cardinality(Subtree(root, <<>>)) - 1

\* items() lists each stored word once, with its current score, and nothing
\* else.
ItemsAreTheStoredPairs ==
  /\ Range(ret) = {<<w, ScoreOf(Self, w)>> : w \in StoredWords(Self)}
  /\ Len(ret) = Cardinality(StoredWords(Self))

\* C14: items() lists each stored word once with its current score
\* and nothing else, in ascending-symbol depth-first order (a word before its
\* extensions, siblings by ascending symbol), whatever the insertion order.
C14_ItemsAscending ==
  call.name = "items" =>
    /\ ItemsAreTheStoredPairs
    /\ \A i, j \in 1..Len(ret) : i < j => StrLess(ret[i][1], ret[j][1])

\* C15: contains, complete, stats and items never mutate the index: the tree
\* structure, terminal flags, scores, word count and node count after the
\* call are those before it, for every argument.
C15_ReadOnly ==
  call.name \in {"contains", "complete", "stats", "items"} =>
    /\ root = before.root
    /\ _words = before._words
    /\ _nodes = before._nodes

\* contains of a word that has no path in a trie that stores a word
C15_Witness ==
  /\ call.name = "contains"
  /\ ~_find_node(root, call.word).found
  /\ StoredWords(Self) # {}
  /\ Self = before

\* The nodes a call detached: those of the trie before it that are gone.
Detached == DOMAIN before.root \ DOMAIN root

\* C18: a successful remove(w) detaches only nodes on w's own path, never the
\* root, each of them dead when detached (not terminal once w is unmarked,
\* and every child it had already detached); so every stored word other
\* than w keeps its membership and its score.
C18_RemovePrunesOwnPath ==
  (call.name = "remove" /\ ret = TRUE) =>
    /\ \A n \in Detached :
         /\ n # <<>>
         /\ StartsWith(call.word, n)
         /\ (before.root[n].is_word => n = call.word)
         /\ \A i \in 1..Len(before.root[n].children) :
              Append(n, before.root[n].children[i]) \in Detached
    /\ \A v \in Words \ {call.word} :
         /\ contains(Self, v) = contains(before, v)
         /\ contains(before, v) => ScoreOf(Self, v) = ScoreOf(before, v)

\* C19: insert(w, s) of a non-empty word w that was not stored, followed by
\* remove(w), restores stats() and items() to what they were before the
\* insert; from an empty index stats() is (0, 0, 1).
C19_InsertRemoveRoundTrip ==
  (call.name = "insert" /\ call.word # <<>> /\ ~contains(before, call.word)) =>
    LET r == remove(Self, call.word)
    IN /\ r.ret = TRUE
       /\ stats(r.self) = stats(before)
       /\ items(r.self) = items(before)
       /\ before = NewTrie => stats(r.self) = <<0, 0, 1>>

\* The words of S in ascending order.
RECURSIVE Ascending(_)
Ascending(S) ==
  IF S = {} THEN <<>>
  ELSE LET least == CHOOSE w \in S : \A v \in S \ {w} : StrLess(w, v)
       IN <<least>> \o Ascending(S \ {least})

\* A fresh index given the (word, score) pairs of s by inserts in ascending
\* order of the words.
RECURSIVE InsertAll(_, _, _)
InsertAll(t, s, ws) ==
  IF ws = <<>> THEN t
  ELSE InsertAll(insert(t, Head(ws), ScoreOf(s, Head(ws))), s, Tail(ws))

Rebuilt(s) == InsertAll(NewTrie, s, Ascending(StoredWords(s)))

\* C20: complete(p, k) depends on the stored (word, score) pairs only: the
\* index, whatever order of operations built it, answers as the index built
\* from the same pairs by inserts in ascending order does, ties included.
C20_CompleteDeterministic ==
  call.name = "complete" =>
    /\ Range(items(Rebuilt(Self))) = Range(items(Self))
    /\ ret = complete(Rebuilt(Self), call.word, call.k)

\* a complete that returned two words of equal score from an index whose
\* node "a" got its child "b" before its child "a"
C20_Witness ==
  /\ call.name = "complete"
  /\ Len(ret) >= 2
  /\ ScoreOf(Self, ret[1]) = ScoreOf(Self, ret[2])
  /\ <<"a">> \in DOMAIN root
  /\ root[<<"a">>].children = <<"b", "a">>
  /\ root # Rebuilt(Self).root

\* The (word, score) pairs an index holds.
Pairs(s) == {<<n, s.root[n].freq>> : n \in Terminals(s.root)}

\* The line just read is `save <path>`.
IsSave ==
  /\ call.name = "main"
  /\ Len(call.parts) = 2
  /\ lower(call.parts[1]) = <<"save">>

\* C16: after save_csv wrote items() of the index to a file, inserting the
\* pairs load_csv returns for that file into a fresh index gives an index
\* holding the same set of (word, score) pairs.
C16_RoundTrip ==
  IsSave =>
    /\ call.parts[2] \in DOMAIN files
    /\ Pairs(InsertPairs(NewTrie, load_csv(files, call.parts[2]).words))
         = Pairs(before)

\* a save of an index holding two words, one of them with score 1
C16_Witness ==
  /\ IsSave
  /\ Cardinality(Pairs(before)) >= 2
  /\ \E x \in Pairs(before) : x[2] = 1
  /\ Len(files[call.parts[2]]) = Cardinality(Pairs(before))

\* The commands and the number of tokens of a line of each.
Commands == {"insert", "remove", "contains", "complete", "stats", "load",
             "save", "quit"}
Arity(cmd) ==
  CASE cmd \in {"stats", "quit"} -> 1
    [] cmd \in {"remove", "contains", "load", "save"} -> 2
    [] cmd \in {"insert", "complete"} -> 3

\* A line is well formed when it names a command, has the number of tokens
\* of that command, and its score or k is a number; a non-blank line that is
\* not well formed is malformed.
WellFormed(parts) ==
  /\ parts # <<>>
  /\ Len(parts[1]) = 1
  /\ lower(parts[1])[1] \in Commands
  /\ Len(parts) = Arity(lower(parts[1])[1])
  /\ lower(parts[1])[1] = "insert" => float(parts[3]).ok
  /\ lower(parts[1])[1] = "complete" => int(parts[3]).ok

Malformed(parts) == parts # <<>> /\ ~WellFormed(parts)

\* C17: a malformed line (unknown command, missing or extra arguments, a
\* score or k that is not a number) prints nothing on standard output,
\* leaves the live index unchanged, and does not end the loop.
C17_MalformedIgnored ==
  (call.name = "main" /\ Malformed(call.parts)) =>
    /\ ret = <<>>
    /\ Self = before
    /\ ~call.quit

\* The line just read is `load <path>`.
IsLoad ==
  /\ call.name = "main"
  /\ Len(call.parts) = 2
  /\ lower(call.parts[1]) = <<"load">>

\* The entries a sequence of (word, score) pairs amounts to: each word with
\* the score of its last pair.
LastScore(pairs, w) ==
  pairs[CHOOSE i \in 1..Len(pairs) :
          /\ pairs[i][1] = w
          /\ \A j \in (i + 1)..Len(pairs) : pairs[j][1] # w][2]

Entries(pairs) ==
  {<<pairs[i][1], LastScore(pairs, pairs[i][1])>> : i \in 1..Len(pairs)}

PrefixesOf(w) == {SubSeq(w, 1, n) : n \in 0..Len(w)}

\* C21: after `load <path>` the live index is a fresh one holding exactly the
\* entries read from the file: its pairs are the file's entries, its nodes
\* are the prefixes of the file's words, its counters count them, and no
\* word stored before the load is kept unless the file has it; when the
\* file does not exist the index is the empty one.
C21_LoadReplaces ==
  IsLoad =>
    LET read == IF call.parts[2] \in DOMAIN files
                THEN load_csv(files, call.parts[2]).words
                ELSE <<>>
    IN /\ Pairs(Self) = Entries(read)
       /\ DOMAIN root = UNION {PrefixesOf(x[1]) : x \in Entries(read)} \cup {<<>>}
       /\ _words = Cardinality(Entries(read))
       /\ _nodes = Cardinality(DOMAIN root)
       /\ \A x \in Pairs(before) :
            (\A y \in Entries(read) : y[1] # x[1]) => x[1] \notin Terminals(root)
       /\ call.parts[2] \notin DOMAIN files => Self = NewTrie

\* a load of an existing file that has entries, made while the index stored
\* a word the file does not have
C21_Witness ==
  /\ IsLoad
  /\ call.parts[2] \in DOMAIN files
  /\ Pairs(Self) # {}
  /\ \E x \in Pairs(before) : \A y \in Pairs(Self) : y[1] # x[1]

\* a load of a file that does not exist, made while the index stored a word
C21_WitnessMissingFile ==
  /\ IsLoad
  /\ call.parts[2] \notin DOMAIN files
  /\ Pairs(before) # {}
  /\ Self = NewTrie

====
